---- MODULE Spec2Model ----
(***************************************************************************)
(* nissaba: the get-or-create queries of nissaba/db/queries.py run by      *)
(* SQLAlchemy sessions against one PostgreSQL database (READ COMMITTED)    *)
(* holding the tables of nissaba/db/schema.py.                             *)
(*                                                                         *)
(* One step of the model is one SQL statement of one session (SELECT,      *)
(* INSERT, SAVEPOINT, RELEASE SAVEPOINT, ROLLBACK TO SAVEPOINT), a call of *)
(* one of the three public functions by the session's owner, or the        *)
(* owner's COMMIT.  The Python code between two statements touches only    *)
(* the session's own objects and is part of the step that precedes it.     *)
(***************************************************************************)
EXTENDS Integers, Sequences, FiniteSets, TLC

\* ------------------------------------------------------------------ bounds
NumSessions == 2        \* concurrent sessions (each its own transaction)
MaxCalls    == 2        \* calls of the public functions, all sessions together
MaxVersion  == 2        \* distinct OperatingSystem.version values requested
MaxDuration == 2        \* distinct TestResult.milliseconds_duration values
MaxRepeats  == 5        \* consecutive calls of one session in RepeatSpec

Sessions == 1..NumSessions
NULL     == 0           \* SQL NULL / a column the instance never set

\* ------------------------------------------------------------------ schema
OperatingSystem == "OperatingSystem"
Hardware        == "Hardware"
TestSpec        == "TestSpec"
TestRun         == "TestRun"
TestResult      == "TestResult"

Models == {OperatingSystem, Hardware, TestSpec, TestRun, TestResult}

\* The mapped attributes of a class other than id; a relationship stands for
\* its foreign-key column (os for os_id, ...).
Columns(model) ==
    CASE model = OperatingSystem -> {"name", "type", "version"}
      [] model = Hardware -> {"architecture", "microarchitecture", "size"}
      [] model = TestSpec -> {"name", "vut", "parameters", "os", "hardware"}
      [] model = TestRun ->
            {"runner", "branch", "start_datetime", "milliseconds_duration"}
      [] model = TestResult ->
            {"outcome", "start_datetime", "milliseconds_duration",
             "exception", "run", "test_spec"}

\* relationship(...): the class a foreign-key attribute refers to
Relationships(model) ==
    CASE model = TestSpec -> {"os", "hardware"}
      [] model = TestResult -> {"exception", "run", "test_spec"}
      [] OTHER -> {}

Target(col) ==
    CASE col = "os" -> OperatingSystem
      [] col = "hardware" -> Hardware
      [] col = "run" -> TestRun
      [] col = "test_spec" -> TestSpec
      [] col = "exception" -> "TestException"

\* nullable=False
NotNull(model) ==
    IF model = TestResult
    THEN {"outcome", "start_datetime", "run", "test_spec"}
    ELSE Columns(model)

\* __table_args__ = (UniqueConstraint(...),)
UniqueConstraint(model) ==
    IF model = TestResult
    THEN {"outcome", "start_datetime", "run", "test_spec"}
    ELSE Columns(model)

\* ------------------------------------------------------------------ values
\* A keyword-argument value: a scalar, a mapping (HSTORE parameters), a
\* transient entity instance (with its public __dict__ items, in order), and,
\* once resolved, a persistent row of the session or the instance the quiet
\* variant has added to the session and not flushed yet.
Scalar(v)   == [kind |-> "scalar", cls |-> "", v |-> v, attrs |-> << >>]
Mapping(v)  == [kind |-> "map", cls |-> "", v |-> v, attrs |-> << >>]
Instance(model, attrs) ==
               [kind |-> "inst", cls |-> model, v |-> 0, attrs |-> attrs]
Row(model, id) == [kind |-> "row", cls |-> model, v |-> id, attrs |-> << >>]
Pending(model) == [kind |-> "pend", cls |-> model, v |-> 0, attrs |-> << >>]
None        == [kind |-> "none", cls |-> "", v |-> 0, attrs |-> << >>]

Item(k, val) == [key |-> k, val |-> val]

\* isinstance(value, Base): the callers pass transient instances (as the
\* tests do), never rows a session has already loaded.
IsBase(val) == val.kind = "inst"

\* ------------------------------------------------------------------ inputs
OSKw(ver) == << Item("name", Scalar(1)), Item("type", Scalar(1)),
                Item("version", Scalar(ver)) >>
\* a mapping that leaves out columns of the natural key
OSPartialKw == << Item("name", Scalar(1)) >>
HardwareKw == << Item("architecture", Scalar(1)),
                 Item("microarchitecture", Scalar(1)),
                 Item("size", Scalar(1)) >>
TestRunKw == << Item("runner", Scalar(1)), Item("branch", Scalar(1)),
                Item("start_datetime", Scalar(1)),
                Item("milliseconds_duration", Scalar(1)) >>
TestSpecKw == << Item("name", Scalar(1)), Item("vut", Scalar(1)),
                 Item("parameters", Mapping(1)),
                 Item("os", Instance(OperatingSystem, OSKw(1))),
                 Item("hardware", Instance(Hardware, HardwareKw)) >>
\* a TestSpec mapping that leaves out the NOT NULL column vut
TestSpecPartialKw ==
              << Item("name", Scalar(1)),
                 Item("parameters", Mapping(1)),
                 Item("os", Instance(OperatingSystem, OSKw(1))),
                 Item("hardware", Instance(Hardware, HardwareKw)) >>
TestResultKw(dur) ==
              << Item("outcome", Scalar(1)), Item("start_datetime", Scalar(1)),
                 Item("milliseconds_duration", Scalar(dur)),
                 Item("run", Instance(TestRun, TestRunKw)),
                 Item("test_spec", Instance(TestSpec, TestSpecKw)) >>

Object(model, kwargs) == [model |-> model, kwargs |-> kwargs]

FlatObjects ==
    {Object(OperatingSystem, OSKw(v)) : v \in 1..MaxVersion}
        \cup {Object(OperatingSystem, OSPartialKw)}
NestedObjects ==
    {Object(TestSpec, TestSpecKw)}
        \cup {Object(TestResult, TestResultKw(d)) : d \in 1..MaxDuration}
PartialObjects ==
    {Object(TestSpec, TestSpecPartialKw)}
Objects == FlatObjects \cup NestedObjects \cup PartialObjects

\* the (model, kwargs) lists handed to bulk_get_or_create
Batches ==
    {<< >>}
        \cup {<<a>> : a \in Objects}
        \cup {<<a, b>> : a \in FlatObjects, b \in FlatObjects}
        \cup {<<Object(TestSpec, TestSpecKw), a>> : a \in FlatObjects}

\* ------------------------------------------------------------------ state
VARIABLES
    rows,       \* the tables: the rows of every class, committed or not
    serial,     \* serial[model]: the last value of the table's id sequence
    stack,      \* stack[s]: the call stack of session s's thread
    pending,    \* pending[s]: the instance added to s and not flushed yet
    depth,      \* depth[s]: the open SAVEPOINTs of s's transaction
    cur,        \* cur[s]: what the running (or last) call of s has done
    done,       \* done[s]: the finished calls of s, oldest first
    ncalls      \* calls made so far

vars == <<rows, serial, stack, pending, depth, cur, done, ncalls>>

noisey_fn == "noisey_get_one_or_create"
bulk_fn   == "bulk_get_or_create"
quiet_fn  == "quiet_get_one_or_create"
_quiet_fn == "_quiet_get_one_or_create"

NoPending == [cls |-> "", cols |-> << >>]

Frame(fn, model, kwargs) ==
    [fn |-> fn, model |-> model, kwargs |-> kwargs, i |-> 1,
     params |-> << >>, pc |-> "prepare", objects |-> << >>, j |-> 0,
     ret |-> None, exc |-> ""]

\* instances = []
EmptyList == [kind |-> "list", cls |-> "", v |-> 0, attrs |-> << >>]

\* one statement of a call, as the connection sees it: the operation, the
\* table, the outcome, the row found, inserted or collided with, the number
\* of rows a SELECT matched, and the table's last id at that moment
Stmt(op, model, res, id, n) ==
    [op |-> op, cls |-> model, res |-> res, id |-> id, n |-> n,
     hi |-> IF model \in Models THEN serial[model] ELSE 0]

Idle == [fn |-> "", objects |-> << >>, trace |-> << >>, before |-> {},
         status |-> "idle", val |-> None, exc |-> ""]

\* ------------------------------------------------------------------ the store
\* (mutation) a lookup that misses the rows the session's own transaction
\* has inserted and not committed
CommittedOnly(s) == {r \in rows : r.owner = 0}

\* (mutation) READ UNCOMMITTED: a session sees every row, also those that
\* other transactions have not committed and may still roll back
ReadUncommitted(s) == rows

\* READ COMMITTED: a session sees the committed rows and its own.
Visible(s) == {r \in rows : r.owner \in {0, s}}

\* (mutation) a filter on the first keyword argument only
MatchingFirstKey(s, model, params) ==
    {r \in Visible(s) :
        /\ r.cls = model
        /\ \A k \in DOMAIN params :
             k = 1 => r.cols[params[k].key] = params[k].val.v}

\* session.query(model).filter_by(**params): exact match on every given key
Matching(s, model, params) ==
    {r \in Visible(s) :
        /\ r.cls = model
        /\ \A k \in DOMAIN params : r.cols[params[k].key] = params[k].val.v}

\* (mutation) Query.first(): any matching row will do
First(found) == IF Cardinality(found) = 0 THEN "none" ELSE "one"

\* Query.one(): the row, NoResultFound or MultipleResultsFound
One(found) ==
    IF Cardinality(found) = 1 THEN "one"
    ELSE IF Cardinality(found) = 0 THEN "none"
    ELSE "many"

\* model(**params): the columns not given stay unset
NewInstance(model, params) ==
    [cls |-> model,
     cols |-> [c \in Columns(model) |->
                 IF \E k \in DOMAIN params : params[k].key = c
                 THEN params[CHOOSE k \in DOMAIN params : params[k].key = c].val.v
                 ELSE NULL]]

NotNullViolation(inst) == \E c \in NotNull(inst.cls) : inst.cols[c] = NULL

\* (mutation) a table declared without its UniqueConstraint
NoUniqueIndex(inst) == {}

\* the rows the unique index of the table holds for the instance's key
Conflicts(inst) ==
    {r \in rows :
        /\ r.cls = inst.cls
        /\ \A c \in UniqueConstraint(inst.cls) : r.cols[c] = inst.cols[c]}

\* An INSERT whose key another transaction has inserted and not yet committed
\* waits for that transaction to end.  (Two transactions that wait for each
\* other stay blocked here; PostgreSQL would abort one of them with a
\* deadlock error, which no function of queries.py handles.)
Waits(s, inst) ==
    /\ ~NotNullViolation(inst)
    /\ \E r \in Conflicts(inst) : r.owner \notin {0, s}

\* the outcome of INSERT: "ok", or the IntegrityError's cause
InsertResult(inst) ==
    IF NotNullViolation(inst) THEN "notnull"
    ELSE IF Conflicts(inst) # {} THEN "unique"
    ELSE "ok"

Inserted(s, inst) ==
    [id |-> serial[inst.cls] + 1, cls |-> inst.cls, cols |-> inst.cols,
     owner |-> s, lvl |-> depth[s], by |-> s]

\* the row an INSERT collided with (0: none, a NOT NULL violation)
ConflictId(inst) ==
    IF InsertResult(inst) = "unique"
    THEN (CHOOSE r \in Conflicts(inst) : TRUE).id ELSE 0

\* (mutation) a RELEASE SAVEPOINT after which the rows still belong to the
\* released savepoint's level
ReleasedInPlace(s) == rows

\* RELEASE SAVEPOINT: the rows of the innermost savepoint join the enclosing one
Released(s) ==
    {IF r.owner = s /\ r.lvl = depth[s] THEN [r EXCEPT !.lvl = depth[s] - 1]
     ELSE r : r \in rows}

\* (mutation) a ROLLBACK TO SAVEPOINT that undoes nothing
RolledBackNothing(s) == rows

\* (mutation) ROLLBACK of the whole transaction instead of the savepoint
RolledBackAll(s) == {r \in rows : r.owner # s}

\* ROLLBACK TO SAVEPOINT: the rows inserted since the innermost savepoint go
RolledBack(s) == {r \in rows : ~(r.owner = s /\ r.lvl >= depth[s])}

\* COMMIT of the owner's transaction
Committed(s) ==
    {IF r.owner = s THEN [r EXCEPT !.owner = 0, !.lvl = 0] ELSE r : r \in rows}


\* ------------------------------------------------------------------ the calls
\* (mutation) a resolver that copies entity values like scalars instead of
\* resolving them
RECURSIVE CopyUnresolved(_)
CopyUnresolved(stk) ==
    LET n == Len(stk)
        f == stk[n]
    IN  IF f.pc # "prepare" THEN stk
        ELSE IF f.i > Len(f.kwargs) THEN [stk EXCEPT ![n].pc = "query"]
        ELSE CopyUnresolved(
                [stk EXCEPT ![n].params = Append(@, f.kwargs[f.i]),
                            ![n].i = @ + 1])

\* (mutation) a resolver that leaves the mapping values (parameters) out of
\* the mapping it returns
RECURSIVE PrepareWithoutMappings(_)
PrepareWithoutMappings(stk) ==
    LET n == Len(stk)
        f == stk[n]
    IN  IF f.pc # "prepare" THEN stk
        ELSE IF f.i > Len(f.kwargs) THEN [stk EXCEPT ![n].pc = "query"]
        ELSE IF IsBase(f.kwargs[f.i].val)
        THEN PrepareWithoutMappings(
                Append(stk, Frame(f.fn, f.kwargs[f.i].val.cls,
                                  f.kwargs[f.i].val.attrs)))
        ELSE IF f.kwargs[f.i].val.kind = "map"
        THEN PrepareWithoutMappings([stk EXCEPT ![n].i = @ + 1])
        ELSE PrepareWithoutMappings(
                [stk EXCEPT ![n].params = Append(@, f.kwargs[f.i]),
                            ![n].i = @ + 1])

\* (mutation) a resolver that resolves every entity value by
\* _quiet_get_one_or_create, whichever function called it
RECURSIVE PrepareQuietly(_)
PrepareQuietly(stk) ==
    LET n == Len(stk)
        f == stk[n]
    IN  IF f.pc # "prepare" THEN stk
        ELSE IF f.i > Len(f.kwargs) THEN [stk EXCEPT ![n].pc = "query"]
        ELSE IF IsBase(f.kwargs[f.i].val)
        THEN PrepareQuietly(
                Append(stk, Frame(_quiet_fn, f.kwargs[f.i].val.cls,
                                  f.kwargs[f.i].val.attrs)))
        ELSE PrepareQuietly(
                [stk EXCEPT ![n].params = Append(@, f.kwargs[f.i]),
                            ![n].i = @ + 1])

\* _prepare_model_params, run until the thread's next SQL statement: scalar
\* and mapping values are copied; an entity value is resolved by a nested
\* call of the same get_one_or_create that the caller is.
RECURSIVE _prepare_model_params(_)
_prepare_model_params(stk) ==
    LET n == Len(stk)
        f == stk[n]
    IN  IF f.pc # "prepare" THEN stk
        ELSE IF f.i > Len(f.kwargs) THEN [stk EXCEPT ![n].pc = "query"]
        ELSE IF IsBase(f.kwargs[f.i].val)
        THEN _prepare_model_params(
                Append(stk, Frame(f.fn, f.kwargs[f.i].val.cls,
                                  f.kwargs[f.i].val.attrs)))
        ELSE _prepare_model_params(
                [stk EXCEPT ![n].params = Append(@, f.kwargs[f.i]),
                            ![n].i = @ + 1])

\* the top frame returns v to the frame that called it
Return(stk, v) ==
    LET n    == Len(stk)
        rest == SubSeq(stk, 1, n - 1)
        p    == rest[n - 1]
    IN  IF n = 1 THEN << >>
        ELSE IF p.pc = "prepare"
        THEN _prepare_model_params(
                [rest EXCEPT ![n - 1].params = Append(@, Item(p.kwargs[p.i].key, v)),
                             ![n - 1].i = @ + 1])
        ELSE IF p.fn = bulk_fn /\ p.j < Len(p.objects)
        THEN _prepare_model_params(
                Append([rest EXCEPT ![n - 1].ret = v, ![n - 1].j = @ + 1],
                       Frame(_quiet_fn, p.objects[p.j + 1].model,
                             p.objects[p.j + 1].kwargs)))
        ELSE [rest EXCEPT ![n - 1].ret = v, ![n - 1].pc = "exit"]

\* (mutation) every variant catches the IntegrityError and looks up again
CatchesEverywhere(fn, exc) == exc = "IntegrityError"

\* (mutation) no variant catches the IntegrityError
CatchesNowhere(fn, exc) == FALSE

\* "except IntegrityError:" stands in noisey_get_one_or_create only
Catches(fn, exc) == fn = noisey_fn /\ exc = "IntegrityError"

\* (mutation) a savepoint that is begun and never released or rolled back
StillOpen(d) == d

\* the open savepoints after a "with session.begin_nested()" block is left
Closed(d) == d - 1

\* (mutation) an exception that leaves every frame at once, as if no
\* "with session.begin_nested()" block stood around the raising statement
RaisePastBlock(stk, exc) == << >>

\* an exception leaves the frames up to the innermost open
\* "with session.begin_nested()" block around them, if there is one
Raise(stk, exc) ==
    IF stk[1].fn \in {quiet_fn, bulk_fn}
    THEN << [stk[1] EXCEPT !.pc = "rollback", !.exc = exc] >>
    ELSE << >>

\* the flush gives the added instance its row: every reference to the
\* instance is a reference to that row from now on
Flushed(stk, row) ==
    [k \in DOMAIN stk |->
        [stk[k] EXCEPT
            !.params = [m \in DOMAIN stk[k].params |->
                          IF stk[k].params[m].val.kind = "pend"
                          THEN Item(stk[k].params[m].key, row)
                          ELSE stk[k].params[m]],
            !.ret = IF stk[k].ret.kind = "pend" THEN row ELSE stk[k].ret]]

Executed(s, st) == [cur[s] EXCEPT !.trace = Append(@, st)]

\* the step ends with stack stk; an empty stack ends the call, with the
\* value or the exception the caller gets
Step(s, stk, c, status, val, exc) ==
    LET final == [c EXCEPT !.status = status, !.val = val, !.exc = exc]
    IN  /\ stack' = [stack EXCEPT ![s] = stk]
        /\ IF Len(stk) = 0
           THEN /\ cur' = [cur EXCEPT ![s] = final]
                /\ done' = [done EXCEPT ![s] = Append(@, final)]
           ELSE /\ cur' = [cur EXCEPT ![s] = c]
                /\ done' = done

Call(s, fn, objects) ==
    [fn |-> fn, objects |-> objects, trace |-> << >>,
     before |-> {<<r.cls, r.id>> : r \in {x \in rows : x.owner = s}},
     status |-> "running", val |-> None, exc |-> ""]

\* The dimension rows that earlier, committed transactions of the same
\* program leave behind: the rows of one TestSpec and one TestRun.
Dimensions ==
    {[id |-> 1, cls |-> m, owner |-> 0, lvl |-> 0, by |-> 0,
      cols |-> [c \in Columns(m) |-> 1]] :
        m \in {OperatingSystem, Hardware, TestRun, TestSpec}}

\* The store is empty (as the tests' fixture leaves it) or holds the
\* dimension rows; no session has a call running.
Init ==
    /\ rows \in {{}, Dimensions}
    /\ serial = [m \in Models |-> Cardinality({r \in rows : r.cls = m})]
    /\ stack = [s \in Sessions |-> << >>]
    /\ pending = [s \in Sessions |-> NoPending]
    /\ depth = [s \in Sessions |-> 0]
    /\ cur = [s \in Sessions |-> Idle]
    /\ done = [s \in Sessions |-> << >>]
    /\ ncalls = 0

noisey_get_one_or_create(s, o) ==
    /\ Len(stack[s]) = 0
    /\ ncalls' = ncalls + 1
    /\ stack' = [stack EXCEPT ![s] =
            _prepare_model_params(<< Frame(noisey_fn, o.model, o.kwargs) >>)]
    /\ cur' = [cur EXCEPT ![s] = Call(s, noisey_fn, << o >>)]
    /\ UNCHANGED <<rows, serial, pending, depth, done>>

quiet_get_one_or_create(s, o) ==
    /\ Len(stack[s]) = 0
    /\ ncalls' = ncalls + 1
    /\ stack' = [stack EXCEPT ![s] =
            << [Frame(quiet_fn, o.model, o.kwargs) EXCEPT !.pc = "begin_nested"] >>]
    /\ cur' = [cur EXCEPT ![s] = Call(s, quiet_fn, << o >>)]
    /\ UNCHANGED <<rows, serial, pending, depth, done>>

bulk_get_or_create(s, objects) ==
    /\ Len(stack[s]) = 0
    /\ ncalls' = ncalls + 1
    /\ stack' = [stack EXCEPT ![s] =
            << [Frame(bulk_fn, "", << >>) EXCEPT
                    !.pc = "begin_nested", !.objects = objects,
                    !.ret = EmptyList] >>]
    /\ cur' = [cur EXCEPT ![s] = Call(s, bulk_fn, objects)]
    /\ UNCHANGED <<rows, serial, pending, depth, done>>

\* SAVEPOINT: with session.begin_nested()
BeginNested(s) ==
    /\ Len(stack[s]) > 0
    /\ LET stk == stack[s]
           n   == Len(stk)
           f   == stk[n]
           c   == Executed(s, Stmt("SAVEPOINT", f.model, "", 0, 0))
       IN  /\ f.pc = "begin_nested"
           /\ depth' = [depth EXCEPT ![s] = @ + 1]
           /\ cur' = [cur EXCEPT ![s] = c]
           /\ stack' = [stack EXCEPT ![s] =
                IF f.fn = noisey_fn THEN [stk EXCEPT ![n].pc = "flush"]
                ELSE IF f.fn = quiet_fn
                THEN _prepare_model_params(
                        Append([stk EXCEPT ![n].pc = "body"],
                               Frame(_quiet_fn, f.model, f.kwargs)))
                ELSE IF Len(f.objects) = 0 THEN [stk EXCEPT ![n].pc = "exit"]
                ELSE _prepare_model_params(
                        Append([stk EXCEPT ![n].pc = "body", ![n].j = 1],
                               Frame(_quiet_fn, f.objects[1].model,
                                     f.objects[1].kwargs)))]
    /\ UNCHANGED <<rows, serial, pending, done, ncalls>>

\* SELECT: session.query(model).filter_by(**params).one(), first lookup
Query(s) ==
    /\ Len(stack[s]) > 0
    /\ pending[s].cls = ""
    /\ LET stk   == stack[s]
           n     == Len(stk)
           f     == stk[n]
           found == Matching(s, f.model, f.params)
           one   == CHOOSE r \in found : TRUE
       IN  /\ f.pc = "query"
           /\ IF One(found) = "one"
              THEN /\ Step(s, Return(stk, Row(f.model, one.id)),
                           Executed(s, Stmt("SELECT", f.model, "one", one.id,
                                Cardinality(found))),
                           "returned", Row(f.model, one.id), "")
                   /\ pending' = pending
              ELSE IF One(found) = "many"
              THEN /\ Step(s, Raise(stk, "MultipleResultsFound"),
                           Executed(s, Stmt("SELECT", f.model, "many", 0,
                                Cardinality(found))),
                           "raised", None, "MultipleResultsFound")
                   /\ pending' = pending
              ELSE IF f.fn = noisey_fn
              THEN /\ Step(s, [stk EXCEPT ![n].pc = "begin_nested"],
                           Executed(s, Stmt("SELECT", f.model, "none", 0,
                                Cardinality(found))),
                           "running", None, "")
                   /\ pending' = pending
              ELSE /\ Step(s, Return(stk, Pending(f.model)),
                           Executed(s, Stmt("SELECT", f.model, "none", 0,
                                Cardinality(found))),
                           "running", None, "")
                   /\ pending' = [pending EXCEPT ![s] =
                                    NewInstance(f.model, f.params)]
    /\ UNCHANGED <<rows, serial, depth, ncalls>>


\* INSERT by the autoflush that precedes a SELECT: the instance that
\* _quiet_get_one_or_create added to the session is written first
Autoflush(s) ==
    /\ Len(stack[s]) > 0
    /\ pending[s].cls # ""
    /\ LET stk  == stack[s]
           f    == stk[Len(stk)]
           inst == pending[s]
           res  == InsertResult(inst)
           row  == Inserted(s, inst)
       IN  /\ f.pc = "query"
           /\ ~Waits(s, inst)
           /\ serial' = [serial EXCEPT ![inst.cls] = @ + 1]
           /\ pending' = [pending EXCEPT ![s] = NoPending]
           /\ IF res = "ok"
              THEN /\ rows' = rows \cup {row}
                   /\ Step(s, Flushed(stk, Row(row.cls, row.id)),
                           Executed(s, Stmt("INSERT", inst.cls, "ok", row.id, 0)),
                           "running", None, "")
              ELSE /\ rows' = rows
                   /\ Step(s, Raise(stk, "IntegrityError"),
                           Executed(s, Stmt("INSERT", inst.cls, res,
                                            ConflictId(inst), 0)),
                           "raised", None, "IntegrityError")
    /\ UNCHANGED <<depth, ncalls>>

\* INSERT by the flush that ends a "with session.begin_nested()" block: the
\* instance of noisey_get_one_or_create (session.add, then the block ends),
\* or the last instance a quiet call added
Flush(s) ==
    /\ Len(stack[s]) > 0
    /\ LET stk  == stack[s]
           n    == Len(stk)
           f    == stk[n]
           inst == IF f.fn = noisey_fn THEN NewInstance(f.model, f.params)
                   ELSE pending[s]
           res  == InsertResult(inst)
           row  == Inserted(s, inst)
       IN  /\ \/ f.pc = "flush"
              \/ f.pc = "exit" /\ pending[s].cls # ""
           /\ ~Waits(s, inst)
           /\ serial' = [serial EXCEPT ![inst.cls] = @ + 1]
           /\ pending' = [pending EXCEPT ![s] = NoPending]
           /\ IF res = "ok"
              THEN /\ rows' = rows \cup {row}
                   /\ Step(s, IF f.fn = noisey_fn
                              THEN [stk EXCEPT ![n].pc = "exit",
                                               ![n].ret = Row(row.cls, row.id)]
                              ELSE Flushed(stk, Row(row.cls, row.id)),
                           Executed(s, Stmt("INSERT", inst.cls, "ok", row.id, 0)),
                           "running", None, "")
              ELSE /\ rows' = rows
                   /\ Step(s, [stk EXCEPT ![n].pc = "rollback",
                                          ![n].exc = "IntegrityError"],
                           Executed(s, Stmt("INSERT", inst.cls, res,
                                            ConflictId(inst), 0)),
                           "running", None, "")
    /\ UNCHANGED <<depth, ncalls>>

\* RELEASE SAVEPOINT: the block ends normally and its function returns
Release(s) ==
    /\ Len(stack[s]) > 0
    /\ pending[s].cls = ""
    /\ LET stk == stack[s]
           f   == stk[Len(stk)]
       IN  /\ f.pc = "exit"
           /\ rows' = Released(s)
           /\ depth' = [depth EXCEPT ![s] = Closed(@)]
           /\ Step(s, Return(stk, f.ret),
                   Executed(s, Stmt("RELEASE", f.model, "", 0, 0)),
                   "returned", f.ret, "")
    /\ UNCHANGED <<serial, pending, ncalls>>

\* ROLLBACK TO SAVEPOINT: the block is left by an exception.
\* noisey_get_one_or_create catches the IntegrityError and looks up again;
\* the quiet functions let the exception go to their caller.
RollbackToSavepoint(s) ==
    /\ Len(stack[s]) > 0
    /\ LET stk == stack[s]
           n   == Len(stk)
           f   == stk[n]
       IN  /\ f.pc = "rollback"
           /\ rows' = RolledBack(s)
           /\ depth' = [depth EXCEPT ![s] = Closed(@)]
           /\ pending' = [pending EXCEPT ![s] = NoPending]
           /\ Step(s, IF Catches(f.fn, f.exc)
                      THEN [stk EXCEPT ![n].pc = "requery"]
                      ELSE << >>,
                   Executed(s, Stmt("ROLLBACK", f.model, "", 0, 0)),
                   "raised", None, f.exc)
    /\ UNCHANGED <<serial, ncalls>>

\* SELECT: the lookup of noisey_get_one_or_create after the IntegrityError
Requery(s) ==
    /\ Len(stack[s]) > 0
    /\ LET stk   == stack[s]
           f     == stk[Len(stk)]
           found == Matching(s, f.model, f.params)
           one   == CHOOSE r \in found : TRUE
       IN  /\ f.pc = "requery"
           /\ IF One(found) = "one"
              THEN Step(s, Return(stk, Row(f.model, one.id)),
                        Executed(s, Stmt("RESELECT", f.model, "one", one.id,
                                Cardinality(found))),
                        "returned", Row(f.model, one.id), "")
              ELSE IF One(found) = "many"
              THEN Step(s, Raise(stk, "MultipleResultsFound"),
                        Executed(s, Stmt("RESELECT", f.model, "many", 0,
                                Cardinality(found))),
                        "raised", None, "MultipleResultsFound")
              ELSE Step(s, Raise(stk, "NoResultFound"),
                        Executed(s, Stmt("RESELECT", f.model, "none", 0,
                                Cardinality(found))),
                        "raised", None, "NoResultFound")
    /\ UNCHANGED <<rows, serial, pending, depth, ncalls>>

\* COMMIT: the session's owner commits its transaction between two calls
Commit(s) ==
    /\ Len(stack[s]) = 0
    /\ \E r \in rows : r.owner = s
    /\ rows' = Committed(s)
    /\ UNCHANGED <<serial, stack, pending, depth, cur, done, ncalls>>

Next ==
    \E s \in Sessions :
        \/ ncalls < MaxCalls /\ \E o \in Objects : noisey_get_one_or_create(s, o)
        \/ ncalls < MaxCalls /\ \E o \in Objects : quiet_get_one_or_create(s, o)
        \/ ncalls < MaxCalls /\ \E b \in Batches : bulk_get_or_create(s, b)
        \/ BeginNested(s)
        \/ Query(s)
        \/ Autoflush(s)
        \/ Flush(s)
        \/ Release(s)
        \/ RollbackToSavepoint(s)
        \/ Requery(s)
        \/ Commit(s)

Spec == Init /\ [][Next]_vars

\* One session on the empty store of the tests' fixture calls the noisy and
\* the quiet variant again and again with flat mappings, as
\* test_get_one_or_create does.
RepeatInit ==
    /\ rows = {}
    /\ serial = [m \in Models |-> 0]
    /\ stack = [s \in Sessions |-> << >>]
    /\ pending = [s \in Sessions |-> NoPending]
    /\ depth = [s \in Sessions |-> 0]
    /\ cur = [s \in Sessions |-> Idle]
    /\ done = [s \in Sessions |-> << >>]
    /\ ncalls = 0

RepeatNext ==
    \/ ncalls < MaxRepeats /\ \E o \in FlatObjects : noisey_get_one_or_create(1, o)
    \/ ncalls < MaxRepeats /\ \E o \in FlatObjects : quiet_get_one_or_create(1, o)
    \/ BeginNested(1)
    \/ Query(1)
    \/ Flush(1)
    \/ Release(1)
    \/ RollbackToSavepoint(1)
    \/ Requery(1)

RepeatSpec == RepeatInit /\ [][RepeatNext]_vars


\* ------------------------------------------------------------------ claims
RowsOf(model) == {r \in rows : r.cls = model}

\* session s is the only one that has called anything so far
Alone(s) == \A t \in Sessions \ {s} : cur[t].status = "idle"

\* the mapping names every column of the natural key
Full(o) ==
    \A c \in UniqueConstraint(o.model) :
        \E k \in DOMAIN o.kwargs : o.kwargs[k].key = c

NaturalKey(o) ==
    {o.kwargs[k] : k \in {i \in DOMAIN o.kwargs :
                            o.kwargs[i].key \in UniqueConstraint(o.model)}}

SameNaturalKey(r1, r2) ==
    /\ r1.cls = r2.cls
    /\ \A c \in UniqueConstraint(r1.cls) : r1.cols[c] = r2.cols[c]

\* the row carries the scalar and mapping values of the object's kwargs
ScalarsMatch(r, o) ==
    \A k \in DOMAIN o.kwargs :
        IsBase(o.kwargs[k].val) \/ r.cols[o.kwargs[k].key] = o.kwargs[k].val.v

HasStmt(c, op, res) ==
    \E k \in DOMAIN c.trace : c.trace[k].op = op /\ c.trace[k].res = res

\* C1: whatever the sessions call and however their statements interleave,
\* no table ever holds two rows (committed or not) with the same natural key.
C1_NoDuplicateNaturalKey ==
    \A r1 \in rows : \A r2 \in rows : SameNaturalKey(r1, r2) => r1.id = r2.id

\* Two sessions have raced noisey_get_one_or_create on one key: the loser's
\* INSERT hit the unique index, both calls returned, one row exists.
C1_Witness ==
    \E s \in Sessions : \E t \in Sessions \ {s} :
        /\ cur[s].fn = noisey_fn /\ cur[s].status = "returned"
        /\ cur[t].fn = noisey_fn /\ cur[t].status = "returned"
        /\ cur[s].objects = cur[t].objects
        /\ HasStmt(cur[t], "INSERT", "unique")
        /\ Cardinality(RowsOf(cur[s].objects[1].model)) = 1

\* C2: a session working alone on an empty store calls get-or-create (noisy
\* or quiet, in any mix) N times with one mapping that names the whole natural
\* key: every call returns, all return the same row, that row carries the
\* mapping's values and is the only row with its natural key (the only row of
\* its table, if the table was empty before).
C2_Idempotent ==
    \A s \in Sessions :
        (/\ Alone(s)
         /\ Len(stack[s]) = 0
         /\ Len(done[s]) >= 1
         /\ \A k \in DOMAIN done[s] :
                /\ done[s][k].fn \in {noisey_fn, quiet_fn}
                /\ done[s][k].objects = done[s][1].objects
                /\ Full(done[s][k].objects[1]))
        => /\ \A k \in DOMAIN done[s] :
                /\ done[s][k].status = "returned"
                /\ done[s][k].val = done[s][1].val
           /\ \E r \in RowsOf(done[s][1].objects[1].model) :
                /\ done[s][1].val = Row(r.cls, r.id)
                /\ ScalarsMatch(r, done[s][1].objects[1])
                /\ \A r2 \in rows : SameNaturalKey(r, r2) => r2 = r
                /\ RowsOf(r.cls) \subseteq {r} \cup Dimensions

\* The same mapping went through the quiet and then the noisy variant (the
\* scenario of the specification), and through one variant twice.
C2_Witness ==
    \E s \in Sessions :
        /\ Alone(s)
        /\ Len(done[s]) = MaxCalls
        /\ done[s][1].fn = quiet_fn
        /\ done[s][MaxCalls].fn = noisey_fn
        /\ \A k \in DOMAIN done[s] : done[s][k].objects = done[s][1].objects
        /\ Full(done[s][1].objects[1])
        /\ done[s][MaxCalls].status = "returned"


\* the k-th statement of call c of session s is an INSERT that collided with
\* a row which another session inserted after the call's lookup of that entity
LostRace(s, c, k) ==
    /\ c.trace[k].op = "INSERT"
    /\ c.trace[k].res = "unique"
    /\ \E j \in 1..(k - 1) : /\ c.trace[j].op = "SELECT"
                             /\ c.trace[j].cls = c.trace[k].cls
                             /\ c.trace[j].res = "none"
                             /\ c.trace[k].id > c.trace[j].hi
    /\ \E r \in rows : /\ r.cls = c.trace[k].cls
                       /\ r.id = c.trace[k].id
                       /\ r.by # s

\* C3: no noisy call ends with an IntegrityError; the rows its transaction
\* held before the call are still there whatever the call rolled back; and a
\* noisy call whose INSERT lost a race looks up again and gets the row that
\* the other session inserted.
C3_NoisyRecoversFromLostRace ==
    \A s \in Sessions :
        cur[s].fn = noisey_fn =>
            /\ cur[s].exc # "IntegrityError"
            /\ cur[s].before \subseteq {<<r.cls, r.id>> : r \in rows}
            /\ \A k \in DOMAIN cur[s].trace :
                 (LostRace(s, cur[s], k) /\ k + 2 \in DOMAIN cur[s].trace)
                    => /\ cur[s].trace[k + 1].op = "ROLLBACK"
                       /\ cur[s].trace[k + 2].op = "RESELECT"
                       /\ cur[s].trace[k + 2].res = "one"
                       /\ cur[s].trace[k + 2].id = cur[s].trace[k].id

\* someone's call ran into a row with its natural key
Collided(c) == HasStmt(c, "INSERT", "unique")

\* C4: a quiet call (quiet_get_one_or_create or bulk_get_or_create) whose
\* INSERT hits the unique index never looks up again: it ends with the
\* IntegrityError, and the row it collided with is still the one row with
\* that natural key.
C4_QuietPropagatesConflict ==
    \A s \in Sessions :
        (cur[s].fn \in {quiet_fn, bulk_fn} /\ Collided(cur[s])) =>
            /\ ~HasStmt(cur[s], "RESELECT", "one")
            /\ ~HasStmt(cur[s], "RESELECT", "none")
            /\ ~HasStmt(cur[s], "RESELECT", "many")
            /\ cur[s].status \in {"running", "raised"}
            /\ cur[s].status = "raised" => cur[s].exc = "IntegrityError"
            /\ \A k \in DOMAIN cur[s].trace :
                 cur[s].trace[k].res = "unique" =>
                    Cardinality({r \in rows :
                        /\ r.cls = cur[s].trace[k].cls
                        /\ \E x \in rows : /\ x.cls = r.cls
                                           /\ x.id = cur[s].trace[k].id
                                           /\ SameNaturalKey(x, r)}) = 1

\* Two sessions called quiet_get_one_or_create with one flat key that was
\* not in the store; the second to insert got the IntegrityError.
C4_Witness ==
    \E s \in Sessions : \E t \in Sessions \ {s} :
        /\ cur[s].fn = quiet_fn /\ cur[t].fn = quiet_fn
        /\ cur[s].objects = cur[t].objects
        /\ cur[s].objects[1] \in FlatObjects
        /\ cur[s].status = "returned"
        /\ HasStmt(cur[s], "INSERT", "ok")
        /\ cur[t].status = "raised" /\ cur[t].exc = "IntegrityError"
        /\ \E k \in DOMAIN cur[t].trace : LostRace(t, cur[t], k)

\* a lookup of the call matched more than one row
SawMany(c) == \E k \in DOMAIN c.trace : c.trace[k].n > 1

\* C5: a call whose lookup matches two or more rows raises
\* MultipleResultsFound: it returns none of the rows, and it inserts nothing
\* after that lookup.
C5_MultipleMatchesRaises ==
    \A s \in Sessions :
        SawMany(cur[s]) =>
            /\ cur[s].status \in {"running", "raised"}
            /\ cur[s].val = None
            /\ cur[s].status = "raised" => cur[s].exc = "MultipleResultsFound"
            /\ \A k \in DOMAIN cur[s].trace :
                 cur[s].trace[k].n > 1 =>
                    \A m \in DOMAIN cur[s].trace :
                        m > k => cur[s].trace[m].op \notin {"INSERT", "SELECT", "RESELECT"}

\* A call has ended with MultipleResultsFound: two OperatingSystem rows
\* matched the name it asked for.
C5_Witness ==
    \E s \in Sessions :
        /\ SawMany(cur[s])
        /\ cur[s].status = "raised"
        /\ cur[s].exc = "MultipleResultsFound"
        /\ Cardinality(RowsOf(OperatingSystem)) >= 2


\* row r is what object o resolves to: it carries o's scalars, and each of
\* its references is the id of a row that the nested instance resolves to
RECURSIVE ResolvedAs(_, _)
ResolvedAs(r, o) ==
    /\ r.cls = o.model
    /\ ScalarsMatch(r, o)
    /\ \A k \in DOMAIN o.kwargs :
         IsBase(o.kwargs[k].val) =>
            \E x \in RowsOf(o.kwargs[k].val.cls) :
                /\ x.id = r.cols[o.kwargs[k].key]
                /\ ResolvedAs(x, Object(o.kwargs[k].val.cls,
                                        o.kwargs[k].val.attrs))

\* all finished calls of s asked for the one object o
OnlyAsked(s, o) ==
    /\ Len(stack[s]) = 0
    /\ Len(done[s]) >= 1
    /\ \A k \in DOMAIN done[s] : done[s][k].objects = << o >>

\* C6: a session working alone resolves one nested object (a TestSpec with
\* its OperatingSystem and Hardware, a TestResult with its TestRun and
\* TestSpec), once or repeatedly, by any variant.  Every call with the same
\* mapping returns the parent's row; every table of the graph holds exactly
\* one row; the parent's references are the ids of the rows its nested
\* instances resolve to, at every depth.
C6_NestedResolution ==
    \A s \in Sessions : \A o \in NestedObjects :
        (/\ Alone(s)
         /\ OnlyAsked(s, o))
        => /\ \A k \in DOMAIN done[s] :
                /\ done[s][k].status = "returned"
                /\ done[s][k].val = done[s][1].val
                /\ done[s][k].val.kind = "row"
           /\ \E r \in rows :
                /\ done[s][1].val = Row(r.cls, r.id)
                /\ ResolvedAs(r, o)
           /\ \A m \in Models : Cardinality(RowsOf(m)) <= 1

\* A TestResult was resolved twice on an empty store: the first call
\* inserted five rows, the second none.
C6_Witness ==
    \E s \in Sessions :
        /\ Alone(s)
        /\ OnlyAsked(s, Object(TestResult, TestResultKw(1)))
        /\ Len(done[s]) = 2
        /\ Cardinality({k \in DOMAIN done[s][1].trace :
                done[s][1].trace[k].op = "INSERT"}) = 5
        /\ ~HasStmt(done[s][2], "INSERT", "ok")
        /\ done[s][2].status = "returned"
        /\ \A m \in Models : Cardinality(RowsOf(m)) = 1

\* C7: bulk_get_or_create returns the list of the resolved instances, one
\* per (model, kwargs) pair.
C7_BulkReturnsList ==
    \A s \in Sessions :
        (cur[s].fn = bulk_fn /\ cur[s].status = "returned") =>
            /\ cur[s].val.kind = "list"
            /\ Len(cur[s].val.attrs) = Len(cur[s].objects)

\* the objects that the finished calls of s asked for
Asked(s) ==
    UNION {{done[s][k].objects[i] : i \in DOMAIN done[s][k].objects} :
                k \in DOMAIN done[s]}

LastSelect(c) ==
    c.trace[CHOOSE k \in DOMAIN c.trace :
                /\ c.trace[k].op = "SELECT"
                /\ \A m \in DOMAIN c.trace :
                        c.trace[m].op = "SELECT" => m <= k]

\* C8: a session working alone has its requests served by one variant; all
\* ask for one entity type, whose table was empty, with mappings that name the
\* whole natural key.  Then the table holds as many rows as distinct natural
\* keys were asked for; and the second of two equal items of a batch finds
\* the row that the first one staged.
C8_RowsEqualDistinctKeys ==
    \A s \in Sessions :
        (/\ Alone(s)
         /\ Len(stack[s]) = 0
         /\ Asked(s) # {}
         /\ \A k \in DOMAIN done[s] : done[s][k].fn = done[s][1].fn
         /\ \A o \in Asked(s) :
                /\ Full(o)
                /\ \A o2 \in Asked(s) : o2.model = o.model
                /\ RowsOf(o.model) \cap Dimensions = {})
        => /\ \A o \in Asked(s) :
                Cardinality(RowsOf(o.model))
                    = Cardinality({NaturalKey(o2) : o2 \in Asked(s)})
           /\ \A k \in DOMAIN done[s] :
                (/\ done[s][k].fn = bulk_fn
                 /\ Len(done[s][k].objects) = 2
                 /\ done[s][k].objects[1] = done[s][k].objects[2])
                => /\ done[s][k].status = "returned"
                   /\ LastSelect(done[s][k]).res = "one"
                   /\ \A i \in DOMAIN done[s][k].trace :
                        done[s][k].trace[i].op = "INSERT" =>
                            /\ done[s][k].trace[i].res = "ok"
                            /\ done[s][k].trace[i].id = LastSelect(done[s][k]).id

\* One batch asked twice for a new key and staged one row; and two calls
\* that differ in the version alone left two rows.
C8_Witness ==
    \E s \in Sessions :
        /\ Alone(s)
        /\ Len(stack[s]) = 0
        /\ Len(done[s]) = 2
        /\ done[s][1].fn = bulk_fn /\ done[s][2].fn = bulk_fn
        /\ done[s][1].objects = << Object(OperatingSystem, OSKw(1)),
                                   Object(OperatingSystem, OSKw(1)) >>
        /\ done[s][2].objects = << Object(OperatingSystem, OSKw(2)) >>
        /\ HasStmt(done[s][1], "INSERT", "ok")
        /\ Cardinality(RowsOf(OperatingSystem)) = 2

CommittedRows == {r \in rows : r.owner = 0}

\* C9: whenever no call of a session is running, none of its savepoints is
\* open, however the last call ended; and the committed rows change in no
\* step but the owner's COMMIT.
C9_SavepointsClosedNoCommit ==
    /\ [](\A s \in Sessions : Len(stack[s]) = 0 => depth[s] = 0)
    /\ [][CommittedRows' # CommittedRows => \E s \in Sessions : Commit(s)]_vars

\* Calls have ended by an exception after their ROLLBACK TO SAVEPOINT: a
\* noisy call with NoResultFound and a quiet one with the IntegrityError.
C9_Witness ==
    \E s \in Sessions : \E t \in Sessions \ {s} :
        /\ cur[s].fn = noisey_fn /\ cur[s].status = "raised"
        /\ HasStmt(cur[s], "ROLLBACK", "")
        /\ cur[t].fn \in {quiet_fn, bulk_fn} /\ cur[t].status = "raised"
        /\ HasStmt(cur[t], "ROLLBACK", "")
        /\ depth[s] = 0 /\ depth[t] = 0

\* the statements of the call: all that were sent, and those that the test's
\* after_execute listener counts (a statement that raises is not counted)
Issued(c) == Len(c.trace)
Counted(c) ==
    Cardinality({k \in DOMAIN c.trace : c.trace[k].res \notin {"unique", "notnull"}})

FlatCall(c) ==
    /\ c.fn \in {noisey_fn, quiet_fn}
    /\ c.status \in {"returned", "raised"}
    /\ c.objects[1] \in FlatObjects
    /\ ~SawMany(c)

InsertFailed(c) == HasStmt(c, "INSERT", "unique") \/ HasStmt(c, "INSERT", "notnull")

\* C10 as amended: for a flat entity, quiet_get_one_or_create sends 4
\* statements when its lookup finds no row (SAVEPOINT, SELECT, INSERT, then
\* RELEASE or ROLLBACK TO SAVEPOINT) and 3 when it finds one;
\* noisey_get_one_or_create sends 1 when its lookup finds the row, 4 when it
\* creates the row without conflict (SELECT, SAVEPOINT, INSERT, RELEASE) and
\* 5 when its INSERT fails (SELECT, SAVEPOINT, INSERT, ROLLBACK TO SAVEPOINT,
\* SELECT), of which the listener counts 4.
C10_StatementCounts ==
    \A s \in Sessions :
        FlatCall(cur[s]) =>
            /\ (cur[s].fn = quiet_fn /\ HasStmt(cur[s], "SELECT", "none"))
                    => Issued(cur[s]) = 4
            /\ (cur[s].fn = quiet_fn /\ HasStmt(cur[s], "SELECT", "one"))
                    => Issued(cur[s]) = 3
            /\ (cur[s].fn = noisey_fn /\ HasStmt(cur[s], "SELECT", "one"))
                    => Issued(cur[s]) = 1
            /\ (cur[s].fn = noisey_fn /\ HasStmt(cur[s], "INSERT", "ok"))
                    => Issued(cur[s]) = 4
            /\ (cur[s].fn = noisey_fn /\ InsertFailed(cur[s]))
                    => Issued(cur[s]) = 5 /\ Counted(cur[s]) = 4

\* Both variants have created a flat row, and a noisy call has lost a race.
C10_Witness ==
    \E s \in Sessions : \E t \in Sessions \ {s} :
        /\ FlatCall(cur[s]) /\ FlatCall(cur[t])
        /\ cur[t].fn = noisey_fn /\ Collided(cur[t])
        /\ cur[t].status = "returned"
        /\ cur[s].fn = quiet_fn /\ HasStmt(cur[s], "INSERT", "ok")

\* C10 as stated: at most 2 statements for a quiet call that finds no row and
\* 1 for one that finds it; at most 4 for a noisy call in the conflict case
\* and 2 when it creates the row without conflict.
C10_AsStated ==
    \A s \in Sessions :
        FlatCall(cur[s]) =>
            /\ (cur[s].fn = quiet_fn /\ HasStmt(cur[s], "SELECT", "none"))
                    => Counted(cur[s]) <= 2
            /\ (cur[s].fn = quiet_fn /\ HasStmt(cur[s], "SELECT", "one"))
                    => Counted(cur[s]) <= 1
            /\ (cur[s].fn = noisey_fn /\ HasStmt(cur[s], "INSERT", "ok"))
                    => Counted(cur[s]) <= 2
            /\ (cur[s].fn = noisey_fn /\ InsertFailed(cur[s]))
                    => Counted(cur[s]) <= 4

\* the statements that the listener has counted over a sequence of calls
RECURSIVE TotalCounted(_)
TotalCounted(calls) ==
    IF Len(calls) = 0 THEN 0
    ELSE Counted(calls[1]) + TotalCounted(Tail(calls))

Ops(c) == [k \in DOMAIN c.trace |-> c.trace[k].op]

\* the session has finished N >= 1 calls, all of function fn for object o
Repeated(fn, o) ==
    /\ Len(stack[1]) = 0
    /\ Len(done[1]) >= 1
    /\ \A k \in DOMAIN done[1] :
            done[1][k].fn = fn /\ done[1][k].objects = << o >>

\* C11: after N consecutive calls with one flat mapping that names the whole
\* natural key, on a table that was empty, the listener has counted
\* 4 + (N - 1) statements if the calls were noisy (the first call: SELECT,
\* SAVEPOINT, INSERT, RELEASE; each later call: one SELECT) and 4 + 3 * (N - 1)
\* if they were quiet (the first call: SAVEPOINT, SELECT, INSERT, RELEASE;
\* each later call: SAVEPOINT, SELECT, RELEASE).
C11_CountsOverRepeats ==
    \A o \in FlatObjects :
        Full(o) =>
            /\ Repeated(noisey_fn, o) =>
                /\ TotalCounted(done[1]) = 4 + (Len(done[1]) - 1)
                /\ Ops(done[1][1]) = <<"SELECT", "SAVEPOINT", "INSERT", "RELEASE">>
                /\ \A k \in DOMAIN done[1] :
                        k > 1 => Ops(done[1][k]) = <<"SELECT">>
            /\ Repeated(quiet_fn, o) =>
                /\ TotalCounted(done[1]) = 4 + 3 * (Len(done[1]) - 1)
                /\ Ops(done[1][1]) = <<"SAVEPOINT", "SELECT", "INSERT", "RELEASE">>
                /\ \A k \in DOMAIN done[1] :
                        k > 1 => Ops(done[1][k]) = <<"SAVEPOINT", "SELECT", "RELEASE">>

\* Five noisy calls and, in another run, five quiet calls with one mapping
\* have returned: 8 and 16 statements, the numbers test_get_one_or_create
\* asserts.
C11_Witness ==
    \E o \in FlatObjects :
        /\ Full(o)
        /\ Len(done[1]) = MaxRepeats
        /\ done[1][MaxRepeats].status = "returned"
        /\ \/ Repeated(noisey_fn, o) /\ TotalCounted(done[1]) = 8
           \/ Repeated(quiet_fn, o) /\ TotalCounted(done[1]) = 16

\* C12: no call of any variant ends with NoResultFound: a lookup that matches
\* no row only leads to the INSERT, and the second lookup of
\* noisey_get_one_or_create finds a row.
C12_NotFoundNeverSurfaces ==
    \A s \in Sessions :
        /\ cur[s].exc # "NoResultFound"
        /\ ~HasStmt(cur[s], "RESELECT", "none")

\* the references that row r holds (a reference that was never set is NULL)
References(r) == {c \in Relationships(r.cls) : r.cols[c] # NULL}

\* the call resolved an entity of class model before its k-th statement: a
\* lookup found the row, or an INSERT created it
ResolvedBefore(c, k, model) ==
    \E j \in 1..(k - 1) :
        /\ c.trace[j].cls = model
        /\ \/ c.trace[j].op \in {"SELECT", "RESELECT"} /\ c.trace[j].res = "one"
           \/ c.trace[j].op = "INSERT" /\ c.trace[j].res = "ok"

\* C13: in every state, each reference of each row in the store (TestSpec.os,
\* TestSpec.hardware, TestResult.run, TestResult.test_spec) is the id of a row
\* in the store of the referenced class, and no other row has that row's
\* natural key; and within a call, every lookup or INSERT of a TestSpec or
\* TestResult comes after the call has found or created a row of each class it
\* refers to.
C13_ReferencesResolved ==
    /\ \A r \in rows : \A c \in References(r) :
          \E x \in RowsOf(Target(c)) :
              /\ x.id = r.cols[c]
              /\ \A y \in rows : SameNaturalKey(x, y) => y = x
    /\ \A s \in Sessions : \A k \in DOMAIN cur[s].trace :
          (/\ cur[s].trace[k].op \in {"SELECT", "RESELECT", "INSERT"}
           /\ cur[s].trace[k].cls \in {TestSpec, TestResult})
          => \A c \in Relationships(cur[s].trace[k].cls) \ {"exception"} :
                ResolvedBefore(cur[s], k, Target(c))

\* Two sessions have resolved the same TestResult; one of them lost the race
\* for the TestResult row and rolled its savepoint back; the winner's row
\* refers to the TestRun and TestSpec rows.
C13_Witness ==
    \E s \in Sessions : \E r \in RowsOf(TestResult) :
        /\ References(r) = {"run", "test_spec"}
        /\ r.by # s
        /\ cur[s].objects # << >>
        /\ cur[s].objects[1].model = TestResult
        /\ HasStmt(cur[s], "INSERT", "unique")
        /\ HasStmt(cur[s], "ROLLBACK", "")
        /\ \E x \in RowsOf(TestSpec) : References(x) = {"os", "hardware"}

\* how many statements of call c with an operation in ops are about class model
CountOf(c, ops, model) ==
    Cardinality({k \in DOMAIN c.trace :
                    c.trace[k].op \in ops /\ c.trace[k].cls = model})

\* the k-th statement of c is followed by operation op on the same class
Then(c, k, op) ==
    /\ k + 1 \in DOMAIN c.trace
    /\ c.trace[k + 1].op = op
    /\ c.trace[k + 1].cls = c.trace[k].cls

\* the k-th statement of c comes right after operation op on the same class
After(c, k, op) ==
    /\ k - 1 \in DOMAIN c.trace
    /\ c.trace[k - 1].op = op
    /\ c.trace[k - 1].cls = c.trace[k].cls

Ended(c) == c.status \in {"returned", "raised"}

\* The statements of a noisy call follow, for each entity it resolves,
\* SELECT -> (one: done) | (none: SAVEPOINT -> INSERT -> (ok: RELEASE, done)
\* | (IntegrityError: ROLLBACK -> second SELECT -> done)).
NoisyOrder(c) ==
    \A k \in DOMAIN c.trace :
        LET st == c.trace[k]
        IN  /\ st.op = "SAVEPOINT" => After(c, k, "SELECT") /\ c.trace[k - 1].res = "none"
            /\ st.op = "INSERT" => After(c, k, "SAVEPOINT")
            /\ st.op = "RELEASE" => After(c, k, "INSERT") /\ c.trace[k - 1].res = "ok"
            /\ st.op = "ROLLBACK" =>
                    /\ After(c, k, "INSERT")
                    /\ c.trace[k - 1].res \in {"unique", "notnull"}
            /\ st.op = "RESELECT" => After(c, k, "ROLLBACK")
            /\ (k < Len(c.trace) \/ Ended(c)) =>
                    /\ (st.op = "SELECT" /\ st.res = "none") => Then(c, k, "SAVEPOINT")
                    /\ st.op = "SAVEPOINT" => Then(c, k, "INSERT")
                    /\ (st.op = "INSERT" /\ st.res = "ok") => Then(c, k, "RELEASE")
                    /\ (st.op = "INSERT" /\ st.res # "ok") => Then(c, k, "ROLLBACK")
                    /\ st.op = "ROLLBACK" => Then(c, k, "RESELECT")

NestedFns(s) == {stack[s][k].fn : k \in 2..Len(stack[s])}

AllOps(c, ops) == Cardinality({k \in DOMAIN c.trace : c.trace[k].op \in ops})

\* C15: while a noisy call runs, every frame of its stack, at any depth, is
\* noisey_get_one_or_create, every INSERT of a nested entity has its own
\* SAVEPOINT and a failed one is rolled back and looked up again; while a
\* quiet or batch call runs, every frame above the public function is
\* _quiet_get_one_or_create, the call has the one SAVEPOINT of its public
\* function and never looks up again after a failed INSERT.
C15_RecursionKeepsVariant ==
    \A s \in Sessions :
        /\ (Len(stack[s]) > 0 /\ stack[s][1].fn = noisey_fn) =>
                /\ cur[s].fn = noisey_fn
                /\ NestedFns(s) \subseteq {noisey_fn}
        /\ (Len(stack[s]) > 0 /\ stack[s][1].fn \in {quiet_fn, bulk_fn}) =>
                /\ cur[s].fn = stack[s][1].fn
                /\ NestedFns(s) \subseteq {_quiet_fn}
        /\ cur[s].fn = noisey_fn =>
                \A k \in DOMAIN cur[s].trace :
                    cur[s].trace[k].op = "INSERT" =>
                        /\ After(cur[s], k, "SAVEPOINT")
                        /\ (cur[s].trace[k].res # "ok" /\ k + 2 \in DOMAIN cur[s].trace)
                            => /\ Then(cur[s], k, "ROLLBACK")
                               /\ cur[s].trace[k + 2].op = "RESELECT"
        /\ cur[s].fn \in {quiet_fn, bulk_fn} =>
                /\ AllOps(cur[s], {"SAVEPOINT"}) <= 1
                /\ AllOps(cur[s], {"RESELECT"}) = 0
                /\ \A k \in DOMAIN cur[s].trace :
                    cur[s].trace[k].op \in {"SELECT", "INSERT"} =>
                        cur[s].trace[1].op = "SAVEPOINT"

\* A noisy and a quiet call for a TestResult are both three entities deep
\* (TestResult, TestSpec, OperatingSystem), each about to look up the
\* OperatingSystem.
C15_Witness ==
    \E s \in Sessions : \E t \in Sessions \ {s} :
        /\ Len(stack[s]) = 3
        /\ stack[s][1].fn = noisey_fn
        /\ stack[s][3].model = OperatingSystem
        /\ Len(stack[t]) = 4
        /\ stack[t][1].fn = quiet_fn
        /\ stack[t][4].model = OperatingSystem
        /\ stack[t][4].fn = _quiet_fn
        /\ stack[s][3].pc = "query"
        /\ stack[t][4].pc = "query"

\* the keyword arguments that the k-th frame of session s was called with: the
\* caller's mapping, or the public attributes of the entity value that the
\* frame below is resolving
InputOf(s, k) ==
    LET stk == stack[s]
    IN  IF k = 1 THEN cur[s].objects[1].kwargs
        ELSE IF k = 2 /\ stk[1].fn = quiet_fn THEN cur[s].objects[1].kwargs
        ELSE IF k = 2 /\ stk[1].fn = bulk_fn THEN cur[s].objects[stk[1].j].kwargs
        ELSE stk[k - 1].kwargs[stk[k - 1].i].val.attrs

\* the call has got the row <<model, id>> from a lookup or from an INSERT
Got(c, model, id) ==
    \E j \in DOMAIN c.trace :
        /\ c.trace[j].cls = model
        /\ c.trace[j].id = id
        /\ c.trace[j].res \in {"one", "ok"}

\* C16: in every frame of noisey_get_one_or_create and
\* _quiet_get_one_or_create, the mapping that _prepare_model_params builds has,
\* item by item, the keys of the keyword arguments (all of them once it has
\* returned); a scalar or mapping value is the argument's value; an entity
\* value is replaced by the row that the nested get-or-create found or
\* inserted (or, in the quiet variant, by the instance it added and has not
\* flushed yet); and the keyword arguments are still what the caller passed.
C16_ResolverMapping ==
    \A s \in Sessions : \A k \in DOMAIN stack[s] :
        LET f == stack[s][k]
        IN  f.fn \in {noisey_fn, _quiet_fn} =>
            /\ f.kwargs = InputOf(s, k)
            /\ Len(f.params) = f.i - 1
            /\ f.pc # "prepare" => Len(f.params) = Len(f.kwargs)
            /\ \A m \in DOMAIN f.params :
                /\ m \in DOMAIN f.kwargs
                /\ f.params[m].key = f.kwargs[m].key
                /\ ~IsBase(f.kwargs[m].val) => f.params[m].val = f.kwargs[m].val
                /\ IsBase(f.kwargs[m].val) =>
                    /\ f.params[m].val.cls = f.kwargs[m].val.cls
                    /\ \/ /\ f.params[m].val.kind = "row"
                          /\ Got(cur[s], f.params[m].val.cls, f.params[m].val.v)
                       \/ /\ f.params[m].val.kind = "pend"
                          /\ f.fn = _quiet_fn
                          /\ pending[s].cls = f.params[m].val.cls

\* _prepare_model_params has returned the mapping for a TestSpec: its name,
\* vut and parameters as passed, its os and hardware replaced by rows.
C16_Witness ==
    \E s \in Sessions : \E k \in DOMAIN stack[s] :
        LET f == stack[s][k]
        IN  /\ f.model = TestSpec
            /\ f.pc = "query"
            /\ pending[s].cls = ""
            /\ Len(f.params) = 5
            /\ f.params[3] = Item("parameters", Mapping(1))
            /\ f.params[4].val.kind = "row"
            /\ f.params[5].val.kind = "row"
            /\ f.kwargs[4].val.kind = "inst"

\* what a set of rows says: the id, the class and the column values of each
Facts(rs) == {<<r.cls, r.id, r.cols>> : r \in rs}

\* the rows that session s has inserted during its running call
OwnNew(s) ==
    {r \in rows : r.owner = s /\ <<r.cls, r.id>> \notin cur[s].before}

\* session s can see a row that object o resolves to, nested entities
\* included, and the running call of s has not inserted that row
Exists(s, o) == \E r \in Visible(s) \ OwnNew(s) : ResolvedAs(r, o)

\* C17: in every step, a row that leaves the store is one that the session
\* taking the step inserted during its running call and inside a savepoint
\* that it now rolls back, and no row's columns change (no UPDATE, no DELETE
\* of a row that existed before the call); the committed rows only grow; and
\* a step of a call whose objects were already in the store for the session
\* to see, nested entities included, leaves the rows as they are.
C17_InsertOnly ==
    /\ [][\A r \in rows :
            \/ <<r.cls, r.id, r.cols>> \in Facts(rows')
            \/ \E s \in Sessions :
                /\ r \in OwnNew(s)
                /\ RollbackToSavepoint(s)
                /\ \A x \in rows' : ~(x.cls = r.cls /\ x.id = r.id)]_vars
    /\ [][Facts(CommittedRows) \subseteq Facts(CommittedRows')]_vars
    /\ [][\A s \in Sessions :
            (/\ cur[s].status = "running"
             /\ cur[s]' # cur[s]
             /\ \A k \in DOMAIN cur[s].objects : Exists(s, cur[s].objects[k]))
            => Facts(rows') = Facts(rows)]_vars

\* A session created a TestSpec with its OperatingSystem and Hardware, asked
\* for the same TestSpec again and got it without any INSERT.
C17_Witness ==
    \E s \in Sessions :
        /\ Len(done[s]) = 2
        /\ done[s][1].objects = << Object(TestSpec, TestSpecKw) >>
        /\ done[s][2].objects = << Object(TestSpec, TestSpecKw) >>
        /\ AllOps(done[s][1], {"INSERT"}) = 3
        /\ AllOps(done[s][2], {"INSERT"}) = 0
        /\ done[s][2].status = "returned"
        /\ Cardinality(RowsOf(TestSpec)) = 1

\* the rows that the INSERTs of call c created
Staged(c) ==
    {<<c.trace[k].cls, c.trace[k].id>> :
        k \in {i \in DOMAIN c.trace :
                c.trace[i].op = "INSERT" /\ c.trace[i].res = "ok"}}

Stored == {<<r.cls, r.id>> : r \in rows}

\* C18: a bulk_get_or_create call has one SAVEPOINT for all its items; when
\* it ends with an exception, whichever item raised it, its last statement is
\* the ROLLBACK TO SAVEPOINT and none of the rows that its items staged, nested
\* entities included, is in the store, while the rows the session held before
\* are; when it returns, every row it staged is in the store.
C18_BulkAllOrNothing ==
    \A s \in Sessions :
        cur[s].fn = bulk_fn =>
            /\ AllOps(cur[s], {"SAVEPOINT"}) <= 1
            /\ cur[s].status = "raised" =>
                /\ cur[s].trace[Len(cur[s].trace)].op = "ROLLBACK"
                /\ Staged(cur[s]) \cap Stored = {}
                /\ cur[s].before \subseteq Stored
                /\ depth[s] = 0
            /\ cur[s].status = "returned" =>
                /\ Staged(cur[s]) \subseteq Stored
                /\ ~HasStmt(cur[s], "ROLLBACK", "")

\* A batch staged a TestSpec with its OperatingSystem and Hardware for its
\* first item, then its second item raised, and the three rows are gone.
C18_Witness ==
    \E s \in Sessions :
        /\ cur[s].fn = bulk_fn
        /\ cur[s].status = "raised"
        /\ Len(cur[s].objects) = 2
        /\ cur[s].objects[1].model = TestSpec
        /\ Cardinality(Staged(cur[s])) >= 3
        /\ Staged(cur[s]) \cap Stored = {}

\* C19: a quiet_get_one_or_create call sends one SAVEPOINT, as its first
\* statement, however deep the entity is nested; when it ends with an
\* exception, its last statement is the ROLLBACK TO SAVEPOINT and none of the
\* rows it staged, for the entity or for its nested entities, is in the store,
\* while the rows the session held before the call are; when it returns, its
\* last statement is the RELEASE and every row it staged is in the store.
C19_QuietAtomic ==
    \A s \in Sessions :
        cur[s].fn = quiet_fn =>
            /\ AllOps(cur[s], {"SAVEPOINT"}) <= 1
            /\ Len(cur[s].trace) > 0 => cur[s].trace[1].op = "SAVEPOINT"
            /\ cur[s].status = "raised" =>
                /\ cur[s].trace[Len(cur[s].trace)].op = "ROLLBACK"
                /\ AllOps(cur[s], {"ROLLBACK", "RELEASE"}) = 1
                /\ Staged(cur[s]) \cap Stored = {}
                /\ cur[s].before \subseteq Stored
                /\ depth[s] = 0
            /\ cur[s].status = "returned" =>
                /\ cur[s].trace[Len(cur[s].trace)].op = "RELEASE"
                /\ AllOps(cur[s], {"ROLLBACK", "RELEASE"}) = 1
                /\ Staged(cur[s]) \subseteq Stored

\* A quiet call for a TestSpec staged the OperatingSystem and the Hardware
\* row; the INSERT of the TestSpec, at the end of the block, violated NOT
\* NULL; the call raised and both rows are gone.
C19_Witness ==
    \E s \in Sessions :
        /\ cur[s].fn = quiet_fn
        /\ cur[s].status = "raised"
        /\ cur[s].exc = "IntegrityError"
        /\ cur[s].objects[1].model = TestSpec
        /\ Cardinality(Staged(cur[s])) = 2
        /\ HasStmt(cur[s], "INSERT", "notnull")
        /\ RowsOf(OperatingSystem) = {}
        /\ RowsOf(Hardware) = {}

\* the rows that call c created and whose savepoint it has released
Kept(c) ==
    {<<c.trace[k].cls, c.trace[k].id>> :
        k \in {i \in DOMAIN c.trace :
                /\ c.trace[i].op = "INSERT"
                /\ c.trace[i].res = "ok"
                /\ i + 1 \in DOMAIN c.trace
                /\ c.trace[i + 1].op = "RELEASE"}}

\* C20: in a noisy call each created row has its own SAVEPOINT, released
\* right after the INSERT and before the next entity is handled; a ROLLBACK TO
\* SAVEPOINT undoes only the failed INSERT before it; so whatever happens to
\* the parent (its INSERT fails, its lookup raises), every row the call
\* created for a nested entity stays in the store, at the level of the
\* enclosing transaction.
C20_NoisyNotAtomic ==
    \A s \in Sessions :
        cur[s].fn = noisey_fn =>
            /\ \A k \in DOMAIN cur[s].trace :
                (/\ cur[s].trace[k].op = "INSERT"
                 /\ cur[s].trace[k].res = "ok"
                 /\ (k < Len(cur[s].trace) \/ Ended(cur[s])))
                => Then(cur[s], k, "RELEASE")
            /\ AllOps(cur[s], {"SAVEPOINT"}) >= AllOps(cur[s], {"INSERT"})
            /\ \A x \in Kept(cur[s]) :
                \E r \in rows : /\ <<r.cls, r.id>> = x
                                /\ r.owner \in {0, s}
                                /\ r.lvl = 0
            /\ Ended(cur[s]) => Kept(cur[s]) = Staged(cur[s])
            /\ cur[s].before \subseteq Stored

\* A noisy call for a TestSpec created the OperatingSystem and the Hardware
\* row; the INSERT of the TestSpec violated NOT NULL and was rolled back; the
\* call raised, and both rows are in the session's transaction.
C20_Witness ==
    \E s \in Sessions :
        /\ cur[s].fn = noisey_fn
        /\ cur[s].status = "raised"
        /\ cur[s].objects[1].model = TestSpec
        /\ HasStmt(cur[s], "INSERT", "notnull")
        /\ HasStmt(cur[s], "ROLLBACK", "")
        /\ Cardinality(Kept(cur[s])) = 2
        /\ \E r \in RowsOf(OperatingSystem) : r.owner = s /\ r.by = s
        /\ \E r \in RowsOf(Hardware) : r.owner = s /\ r.by = s
        /\ RowsOf(TestSpec) = {}

====
